---- MODULE Spec2Model ----
(***************************************************************************)
(* State-machine model of the WireGuard management console:                *)
(*   - the peers hook      (src/src/hooks/useWireguardPeers.tsx)           *)
(*   - the interfaces page (src/src/pages/Interfaces.tsx)                  *)
(*   - the QR code modal   (src/src/components/QRCodeModal.tsx)            *)
(* JavaScript runs each handler to its next await without interleaving, so *)
(* one action is one such run: the synchronous prefix of a handler, or the *)
(* continuation a handler runs when the reply it awaits arrives.  A        *)
(* handler that awaits another (createPeer awaits fetchPeers, the toggle   *)
(* and delete handlers await fetchInterfaces) continues in the step in     *)
(* which the inner one resolves.  Spec is the two pages; RenderSpec and    *)
(* GenSpec apply the text rendering of the modal and the generators of the *)
(* hook to their inputs.                                                   *)
(***************************************************************************)
EXTENDS Integers, Sequences, FiniteSets, Bags, TLC

\* ------------------------------------------------------------------ bounds
\* handlers that may be suspended on a request at the same time
MaxInFlight == 2
\* longest list a reply carries
MaxLen == 2
\* bits of a value of Math.random() and of the significand of a double
\* (53 in the engines; scaled down)
RandomBits == 8

\* ------------------------------------------------------------------ values
SeqsUpTo(S, n) == UNION {[1..k -> S] : k \in 0..n}

\* a JSON value found in the reply's data field: an array, or one of the
\* non-array shapes (absent, null, an object)
Arr(s) == [tag |-> "array", val |-> s]
Missing == [tag |-> "missing", val |-> <<>>]
Null == [tag |-> "null", val |-> <<>>]
Obj == [tag |-> "object", val |-> <<>>]

PeerItems == {"p1", "p2"}
PeerLists == SeqsUpTo(PeerItems, MaxLen)
PeerData == {Arr(s) : s \in PeerLists} \cup {Missing, Null, Obj}

IfaceIds == {"i1", "i2"}
\* the rows a reply lists: interface i1 disabled or enabled, interface i2
\* enabled
IfaceItems == {r \in [id : IfaceIds, disabled : {"true", "false"}] :
                 r.id = "i2" => r.disabled = "false"}
\* the router assigns each interface its own id
IfaceLists == {s \in SeqsUpTo(IfaceItems, MaxLen) :
                 \A i, j \in 1..Len(s) : i # j => s[i].id # s[j].id}
IfaceData == {Arr(s) : s \in IfaceLists} \cup {Missing, Obj}

\* What the two awaits of a request (fetch, then response.json()) produce:
\* a rejection (the timeout of AbortSignal.timeout, a transport error, a body
\* that is not JSON) or the backend's envelope {success, status?, data or
\* error} together with the HTTP status of the reply.  A failure envelope
\* carries an error and no data.  status 0 stands for an absent status
\* field, http 0 for an HTTP status the caller never reads.
HttpStatuses == {200, 500}
BodyStatuses == {0, 200, 500}
Rejections == {"timeout", "transport", "badjson"}
Reply(o, h, ok, st, d) == [outcome |-> o, http |-> h, success |-> ok, status |-> st, data |-> d]
NoResp == Reply("none", 0, FALSE, 0, Missing)
Rejected(o) == Reply(o, 0, FALSE, 0, Missing)
Envelopes(H, D) ==
  {Reply("json", h, TRUE, st, d) : h \in H, st \in BodyStatuses, d \in D}
  \cup {Reply("json", h, FALSE, st, Missing) : h \in H, st \in BodyStatuses}
Replies(H, D) == {Rejected(o) : o \in Rejections} \cup Envelopes(H, D)
Threw(r) == r.outcome \in Rejections

\* the value of localStorage.getItem('routerConfig'): nothing stored, a
\* mikrotik profile, a profile of another router type, text JSON.parse rejects
Configs == {"none", "mikrotik", "other", "unparsable"}

ErrorToasts == {"notConfigured", "unsupported", "loadError", "connError",
                "createError", "fetchError", "toggleError", "deleteError"}

Req(m, p, b) == [method |-> m, path |-> p, body |-> b]
Log(m, st, err) == [method |-> m, status |-> st, error |-> err]

VARIABLES
  page,                  \* which page is mounted: "peers" or "interfaces"
  mounted,               \* the mount effects have run
  config,                \* localStorage routerConfig
  peers, isLoading, isCreating,                       \* useWireguardPeers state
  interfaces, ifLoading, deletingId, togglingId,      \* Interfaces state
  connectionValid, isCheckingConnection, routerConfig,
  inv,                   \* the handlers suspended on a request
  last,                  \* what the latest step did (history)
  peer, configContent,   \* QRCodeModal: the peer prop, the rendered text
  rnd, body              \* the state of Math.random(), the fields generated
                         \* for the body of the create request

peerVars == <<peers, isLoading, isCreating>>
ifaceVars == <<interfaces, ifLoading, deletingId, togglingId, connectionValid,
               isCheckingConnection, routerConfig>>
modalVars == <<peer, configContent>>
pageVars == <<page, mounted, config, peerVars, ifaceVars, inv, last>>
genVars == <<rnd, body>>
vars == <<pageVars, modalVars, genVars>>

\* a handler suspended on a request: which handler, where it waits, the
\* interface it was called on and (toggle) the currentDisabled it was given.
\* seq orders the handlers that wait for a list GET by the time the GET was
\* sent (1 is the oldest); it is 0 for a handler that waits for another
\* request.  late tells that a list GET sent after this handler's has been
\* answered with a list that was stored.
SuspOn(k, pc, a, c) ==
  [kind |-> k, pc |-> pc, arg |-> a, cur |-> c, seq |-> 0, late |-> FALSE]
Susp(k, pc, a) == SuspOn(k, pc, a, "none")
Pending == BagToSet(inv)
AwaitsList(h) ==
  \/ h.kind \in {"fetchPeers", "fetchInterfaces"} /\ h.pc = "await"
  \/ h.kind \in {"createPeer", "toggle", "delete"} /\ h.pc = "refresh"
Without(b, h) ==
  LET Shift(g) == IF h.seq > 0 /\ g.seq > h.seq THEN [g EXCEPT !.seq = g.seq - 1] ELSE g
  IN  BagOfAll(Shift, b (-) SetToBag({h}))
With(b, h) ==
  LET n == Cardinality({g \in BagToSet(b) : g.seq > 0})
  IN  b (+) SetToBag({[h EXCEPT !.seq = IF AwaitsList(h) THEN n + 1 ELSE 0,
                                 !.late = FALSE]})
Suspend(h) == With(inv, h)
Resume(h) == Without(inv, h)
DroppedWhenLate(h) == h.late
\* setPeers / setInterfaces on a reply whose GET was sent before one already
\* answered: the handlers carry no request id and no AbortController, the
\* reply is stored like any other
Dropped(h) == FALSE
\* the handler h consumed the reply to its list GET; stored tells whether it
\* stored the reply's list
Settled(h, stored) ==
  LET Mark(g) == IF stored /\ g.seq > 0 /\ g.seq < h.seq THEN [g EXCEPT !.late = TRUE] ELSE g
  IN  Without(BagOfAll(Mark, inv), h)
Move(h, g) == With(Without(inv, h), g)

\* the model's bound on concurrency
HasFree == BagCardinality(inv) < MaxInFlight

\* The record of a step: the handler (kind, its arguments), which part ran
\* (start / response / refresh), the reply it consumed, the notifications,
\* requests and log records it produced, whether the handler's promise
\* settled in it and how, and what the handler did over its lifetime.
Event(k, a, c, st, r, ts, rq, lg, dn, res, fl, ok, rf, cf) ==
  [kind |-> k, arg |-> a, cur |-> c, step |-> st, resp |-> r, toasts |-> ts,
   reqs |-> rq, logs |-> lg, done |-> dn, result |-> res, setFlag |-> fl,
   okShown |-> ok, refetches |-> rf, confirmed |-> cf, stale |-> FALSE]
\* the record of a step in which the handler h consumed the reply to its
\* list GET: stale when a GET sent later was answered and stored before
Ranked(h, e) == [e EXCEPT !.stale = h.late]

NoEvent == Event("none", "none", "none", "none", NoResp, <<>>, <<>>, <<>>, FALSE,
                 "pending", FALSE, FALSE, 0, FALSE)

\* ------------------------------------------------------------ peers hook
Truthy(d) == d.tag \in {"array", "object"}
IsArray(d) == d.tag = "array"

Reverse(q) == [i \in 1..Len(q) |-> q[Len(q) + 1 - i]]
ListFromDataReversed(d) == IF IsArray(d) THEN Reverse(d.val) ELSE <<>>
ListFromData(d) == IF IsArray(d) THEN d.val ELSE <<>>

PeersSuccess(r) == r.success /\ Truthy(r.data)

HasSavedConfigUnchecked == TRUE
HasSavedConfig == config # "none"
ParseThrows == config = "unparsable"
AnyRouterType == TRUE
IsMikrotik == config = "mikrotik"

FetchPeersEntryWrongType ==
  IF config = "none" THEN [go |-> "return", toasts |-> <<"notConfigured">>]
  ELSE IF config = "unparsable" THEN [go |-> "throw", toasts |-> <<>>]
  ELSE IF config = "mikrotik" THEN [go |-> "return", toasts |-> <<>>]
  ELSE [go |-> "await", toasts |-> <<>>]

\* fetchPeers up to its await: "return", "throw" or "await", with the
\* notifications shown on the way
FetchPeersEntry ==
  IF ~HasSavedConfig THEN [go |-> "return", toasts |-> <<"notConfigured">>]
  ELSE IF ParseThrows THEN [go |-> "throw", toasts |-> <<>>]
  ELSE IF ~IsMikrotik THEN [go |-> "return", toasts |-> <<>>]
  ELSE [go |-> "await", toasts |-> <<>>]

FetchPeersSettleClears(r, cur) ==
  IF ~Threw(r) /\ PeersSuccess(r)
    THEN [peers |-> ListFromData(r.data), toasts |-> <<>>, logs |-> <<Log("GET", r.http, FALSE)>>]
    ELSE [peers |-> <<>>, toasts |-> <<"loadError">>, logs |-> <<Log("GET", 0, Threw(r))>>]

\* fetchPeers from the reply r on: its try and catch blocks
FetchPeersSettle(r, cur) ==
  IF Threw(r)
    THEN [peers |-> cur, toasts |-> <<"connError">>, logs |-> <<Log("GET", 0, TRUE)>>]
    ELSE IF PeersSuccess(r)
      THEN [peers |-> ListFromData(r.data), toasts |-> <<>>, logs |-> <<Log("GET", r.http, FALSE)>>]
      ELSE [peers |-> cur, toasts |-> <<"loadError">>, logs |-> <<Log("GET", r.http, FALSE)>>]

\* finally { setIsLoading(false) } of fetchPeers: the flag after the reply r
LoadingResetInTryOnly(r) == Threw(r)
LoadingAfterFetchPeers(r) == FALSE

PeersGet == Req("GET", "peers", "none")
PeersPut == Req("PUT", "peers", "peer")

StartFetchPeers ==
  LET e == FetchPeersEntry IN
  IF e.go = "await"
    THEN /\ HasFree
         /\ inv' = Suspend(Susp("fetchPeers", "await", "none"))
         /\ isLoading' = TRUE
         /\ last' = Event("fetchPeers", "none", "none", "start", NoResp, e.toasts,
                          <<PeersGet>>, <<>>, FALSE, "pending", TRUE, FALSE, 0, FALSE)
         /\ UNCHANGED <<peers, isCreating>>
    ELSE /\ last' = Event("fetchPeers", "none", "none", "start", NoResp, e.toasts,
                          <<>>, <<>>, TRUE, IF e.go = "throw" THEN "threw" ELSE "void",
                          FALSE, FALSE, 0, FALSE)
         /\ UNCHANGED <<inv, peerVars>>

\* useEffect(() => { fetchPeers(); }, [fetchPeers])
MountPeers ==
  /\ page = "peers" /\ ~mounted
  /\ mounted' = TRUE
  /\ StartFetchPeers
  /\ UNCHANGED <<modalVars, genVars, page, config, ifaceVars>>

\* a call of the fetchPeers the hook returns, up to its await
fetchPeers ==
  /\ page = "peers" /\ mounted
  /\ StartFetchPeers
  /\ UNCHANGED <<modalVars, genVars, page, mounted, config, ifaceVars>>

FetchPeersReply(h, r) ==
  /\ h.kind = "fetchPeers" /\ h.pc = "await"
  /\ LET f == FetchPeersSettle(r, peers) IN
     /\ peers' = IF Dropped(h) THEN peers ELSE f.peers
     /\ isLoading' = LoadingAfterFetchPeers(r)
     /\ last' = Ranked(h, Event("fetchPeers", "none", "none", "response", r, f.toasts, <<>>,
                                f.logs, TRUE, "void", TRUE, FALSE, 0, FALSE))
  /\ inv' = Settled(h, PeersSuccess(r))
  /\ UNCHANGED <<modalVars, genVars, page, mounted, config, isCreating, ifaceVars>>

\* createPeer up to its await
CreatePeerEntry ==
  IF ~HasSavedConfig THEN [go |-> "return", toasts |-> <<"notConfigured">>]
  ELSE IF ParseThrows THEN [go |-> "throw", toasts |-> <<>>]
  ELSE IF ~IsMikrotik THEN [go |-> "return", toasts |-> <<"unsupported">>]
  ELSE [go |-> "await", toasts |-> <<>>]

createPeer ==
  /\ page = "peers" /\ mounted
  /\ LET e == CreatePeerEntry IN
     IF e.go = "await"
       THEN /\ HasFree
            /\ inv' = Suspend(Susp("createPeer", "await", "none"))
            /\ isCreating' = TRUE
            /\ last' = Event("createPeer", "none", "none", "start", NoResp, e.toasts,
                             <<PeersPut>>, <<>>, FALSE, "pending", TRUE, FALSE, 0, FALSE)
            /\ UNCHANGED <<peers, isLoading>>
       ELSE /\ last' = Event("createPeer", "none", "none", "start", NoResp, e.toasts,
                             <<>>, <<>>, TRUE, IF e.go = "throw" THEN "threw" ELSE "false",
                             FALSE, FALSE, 0, FALSE)
            /\ UNCHANGED <<inv, peerVars>>
  /\ UNCHANGED <<modalVars, genVars, page, mounted, config, ifaceVars>>

\* if (responseData.success) of createPeer
CreateSuccess(r) == r.success

\* the reply to the PUT: the try block of createPeer from the await on
CreatePeerReply(h, r) ==
  /\ h.kind = "createPeer" /\ h.pc = "await"
  /\ IF Threw(r)
       THEN /\ isCreating' = FALSE
            /\ inv' = Resume(h)
            /\ last' = Event("createPeer", "none", "none", "response", r, <<"connError">>,
                             <<>>, <<Log("PUT", 0, TRUE)>>, TRUE, "false", TRUE, FALSE, 0, FALSE)
            /\ UNCHANGED <<peers, isLoading>>
       ELSE IF CreateSuccess(r)
         THEN LET e == FetchPeersEntry IN
              IF e.go = "await"
                THEN /\ isLoading' = TRUE
                     /\ inv' = Move(h, [h EXCEPT !.pc = "refresh"])
                     /\ last' = Event("createPeer", "none", "none", "response", r,
                                      <<"created">> \o e.toasts, <<PeersGet>>,
                                      <<Log("PUT", r.http, FALSE)>>, FALSE, "pending",
                                      TRUE, TRUE, 1, FALSE)
                     /\ UNCHANGED <<peers, isCreating>>
                ELSE \* fetchPeers settled at once: createPeer goes on to its
                     \* return true, or to its catch when fetchPeers threw
                     /\ isCreating' = FALSE
                     /\ inv' = Resume(h)
                     /\ last' = IF e.go = "throw"
                          THEN Event("createPeer", "none", "none", "response", r,
                                     <<"created", "connError">>, <<>>,
                                     <<Log("PUT", r.http, FALSE), Log("PUT", 0, TRUE)>>,
                                     TRUE, "false", TRUE, TRUE, 0, FALSE)
                          ELSE Event("createPeer", "none", "none", "response", r,
                                     <<"created">> \o e.toasts, <<>>,
                                     <<Log("PUT", r.http, FALSE)>>,
                                     TRUE, "true", TRUE, TRUE, 0, FALSE)
                     /\ UNCHANGED <<peers, isLoading>>
         ELSE /\ isCreating' = FALSE
              /\ inv' = Resume(h)
              /\ last' = Event("createPeer", "none", "none", "response", r, <<"createError">>,
                               <<>>, <<Log("PUT", r.http, FALSE)>>, TRUE, "false", TRUE,
                               FALSE, 0, FALSE)
              /\ UNCHANGED <<peers, isLoading>>
  /\ UNCHANGED <<modalVars, genVars, page, mounted, config, ifaceVars>>

CreateResultFromRefresh(r) == IF ~Threw(r) /\ PeersSuccess(r) THEN "true" ELSE "false"

\* await fetchPeers(); return true: what createPeer returns once the
\* fetchPeers it awaits has consumed the reply r
CreateResult(r) == "true"

\* the reply to the GET createPeer's fetchPeers awaits: fetchPeers settles,
\* then createPeer returns true and its finally runs
CreatePeerRefreshReply(h, r) ==
  /\ h.kind = "createPeer" /\ h.pc = "refresh"
  /\ LET f == FetchPeersSettle(r, peers) IN
     /\ peers' = IF Dropped(h) THEN peers ELSE f.peers
     /\ isLoading' = LoadingAfterFetchPeers(r)
     /\ isCreating' = FALSE
     /\ last' = Ranked(h, Event("createPeer", "none", "none", "refresh", r, f.toasts, <<>>,
                                f.logs, TRUE, CreateResult(r), TRUE, TRUE, 1, FALSE))
  /\ inv' = Settled(h, PeersSuccess(r))
  /\ UNCHANGED <<modalVars, genVars, page, mounted, config, ifaceVars>>

PeersNext ==
  \/ MountPeers
  \/ fetchPeers
  \/ createPeer
  \/ \E h \in Pending, r \in Replies(HttpStatuses, PeerData) : FetchPeersReply(h, r)
  \/ \E h \in Pending, r \in Replies(HttpStatuses, {Missing}) : CreatePeerReply(h, r)
  \/ \E h \in Pending, r \in Replies(HttpStatuses, PeerData) : CreatePeerRefreshReply(h, r)

\* ------------------------------------------------------- interfaces page
\* what GET /api/config/router carries in data: a saved profile with all of
\* endpoint, user and password ("complete") or lacking one ("incomplete")
Profile(c) == [tag |-> "object", val |-> <<c>>]
ConfigData == {Missing, Null, Profile("complete"), Profile("incomplete")}

IfacesGet == Req("GET", "interfaces", "none")
IfacePatch(id, d) == Req("PATCH", id, IF d THEN "true" ELSE "false")
IfaceDelete(id) == Req("DELETE", id, "none")

\* apiService.request: rejects when fetch or response.json() rejects and
\* when response.ok is false
ApiThrows(r) == Threw(r) \/ r.http # 200

\* if (!configResponse.success || !configResponse.data)
NoRouterConfig(r) == ~r.success \/ ~Truthy(r.data)

\* if (responseData.success && responseData.status === 200) of checkConnection
ConnectionOk(r) == r.success /\ r.status = 200

InterfacesSuccessNoStatus(r) == r.success

\* if (responseData.success && responseData.status === 200) of fetchInterfaces
InterfacesSuccess(r) == r.success /\ r.status = 200

\* makeProxyRequest: if (!routerConfig) throw
ProxyThrows == routerConfig = "null"

\* the second effect, for the values the step leaves in connectionValid and
\* routerConfig: "fetch" (fetchInterfaces is called), "stop" (setIsLoading
\* (false)) or "none"
EffectOf(cv, rc) ==
  IF cv = "true" /\ rc # "null" THEN "fetch"
  ELSE IF cv = "false" THEN "stop" ELSE "none"

\* what is on screen
MainView == ~isCheckingConnection /\ connectionValid # "false"
ListShown == MainView /\ ~ifLoading /\ Len(interfaces) > 0

\* useEffect(() => { checkConnection(); }, []): runs to the await of
\* apiService.getRouterConfig()
checkConnection ==
  /\ page = "interfaces" /\ ~mounted
  /\ mounted' = TRUE
  /\ inv' = Suspend(Susp("checkConnection", "getConfig", "none"))
  /\ last' = Event("checkConnection", "none", "none", "start", NoResp, <<>>,
                   <<Req("GET", "config/router", "none")>>, <<>>, FALSE, "pending",
                   FALSE, FALSE, 0, FALSE)
  /\ UNCHANGED <<modalVars, genVars, page, config, peerVars, ifaceVars>>

\* checkConnection from the reply of getRouterConfig to the await of the
\* connection test, or to its end
CheckConfigReply(h, r) ==
  /\ h.kind = "checkConnection" /\ h.pc = "getConfig"
  /\ IF ApiThrows(r) \/ NoRouterConfig(r)
       THEN /\ connectionValid' = "false"
            /\ isCheckingConnection' = FALSE
            /\ ifLoading' = FALSE
            /\ inv' = Resume(h)
            /\ last' = Event("checkConnection", "none", "none", "response", r, <<>>, <<>>,
                             <<>>, TRUE, "void", FALSE, FALSE, 0, FALSE)
            /\ UNCHANGED routerConfig
       ELSE IF r.data.val[1] = "incomplete"
         THEN /\ routerConfig' = "incomplete"
              /\ connectionValid' = "false"
              /\ isCheckingConnection' = FALSE
              /\ ifLoading' = FALSE
              /\ inv' = Resume(h)
              /\ last' = Event("checkConnection", "none", "none", "response", r, <<>>, <<>>,
                               <<>>, TRUE, "void", FALSE, FALSE, 0, FALSE)
         ELSE /\ routerConfig' = "complete"
              /\ inv' = Move(h, [h EXCEPT !.pc = "test"])
              /\ last' = Event("checkConnection", "none", "none", "response", r, <<>>,
                               <<Req("POST", "test-connection", "none")>>, <<>>, FALSE,
                               "pending", FALSE, FALSE, 0, FALSE)
              /\ UNCHANGED <<connectionValid, isCheckingConnection, ifLoading>>
  /\ UNCHANGED <<modalVars, genVars, page, mounted, config, peerVars, interfaces, deletingId, togglingId>>

\* checkConnection from the reply of the connection test on, and the second
\* effect that the new connectionValid triggers
CheckTestReply(h, r) ==
  /\ h.kind = "checkConnection" /\ h.pc = "test"
  /\ LET cv == IF ~Threw(r) /\ ConnectionOk(r) THEN "true" ELSE "false"
         eff == EffectOf(cv, routerConfig)
     IN
     /\ connectionValid' = cv
     /\ isCheckingConnection' = FALSE
     /\ IF eff = "fetch"
          THEN /\ inv' = Move(h, Susp("fetchInterfaces", "await", "none"))
               /\ UNCHANGED ifLoading
          ELSE /\ inv' = Resume(h)
               /\ ifLoading' = FALSE
     /\ last' = Event("checkConnection", "none", "none", "response", r, <<>>,
                      IF eff = "fetch" THEN <<IfacesGet>> ELSE <<>>, <<>>, TRUE, "void",
                      FALSE, FALSE, 0, FALSE)
  /\ UNCHANGED <<modalVars, genVars, page, mounted, config, peerVars, interfaces, deletingId, togglingId,
                 routerConfig>>

FetchInterfacesSettleClears(r, cur, cv) ==
  IF ~Threw(r) /\ r.success /\ r.status = 200
    THEN [interfaces |-> IF IsArray(r.data) THEN r.data.val ELSE <<>>,
          toasts |-> IF IsArray(r.data) /\ Len(r.data.val) > 0 THEN <<>> ELSE <<"noInterfaces">>,
          valid |-> cv]
    ELSE [interfaces |-> <<>>,
          toasts |-> <<IF Threw(r) THEN "connError" ELSE "fetchError">>,
          valid |-> "false"]

FetchInterfacesSettleRevalidates(r, cur, cv) ==
  IF ~Threw(r) /\ r.success /\ r.status = 200
    THEN [interfaces |-> IF IsArray(r.data) THEN r.data.val ELSE <<>>,
          toasts |-> IF IsArray(r.data) /\ Len(r.data.val) > 0 THEN <<>> ELSE <<"noInterfaces">>,
          valid |-> "true"]
    ELSE [interfaces |-> cur,
          toasts |-> <<IF Threw(r) THEN "connError" ELSE "fetchError">>,
          valid |-> "false"]

\* fetchInterfaces from the reply r on: the list, the notifications and
\* connectionValid its try and catch blocks leave
FetchInterfacesSettle(r, cur, cv) ==
  IF Threw(r)
    THEN [interfaces |-> cur, toasts |-> <<"connError">>, valid |-> "false"]
    ELSE IF InterfacesSuccess(r)
      THEN [interfaces |-> ListFromData(r.data),
            toasts |-> IF Len(ListFromData(r.data)) = 0 THEN <<"noInterfaces">> ELSE <<>>,
            valid |-> cv]
      ELSE [interfaces |-> cur, toasts |-> <<"fetchError">>, valid |-> "false"]

\* fetchInterfaces called from the main view, up to its await: the add
\* modal's onSuccess={fetchInterfaces} and the await fetchInterfaces() of
\* handleEditSuccess.  (The flags that show and hide the two modals are read
\* by no handler and are not part of the model.)
fetchInterfaces ==
  /\ page = "interfaces" /\ mounted /\ MainView
  /\ IF ProxyThrows
       THEN /\ connectionValid' = "false"
            /\ ifLoading' = FALSE
            /\ last' = Event("fetchInterfaces", "none", "none", "start", NoResp,
                             <<"connError">>, <<>>, <<>>, TRUE, "void", FALSE, FALSE, 0, FALSE)
            /\ UNCHANGED inv
       ELSE /\ HasFree
            /\ inv' = Suspend(Susp("fetchInterfaces", "await", "none"))
            /\ last' = Event("fetchInterfaces", "none", "none", "start", NoResp, <<>>,
                             <<IfacesGet>>, <<>>, FALSE, "pending", FALSE, FALSE, 0, FALSE)
            /\ UNCHANGED <<connectionValid, ifLoading>>
  /\ UNCHANGED <<modalVars, genVars, page, mounted, config, peerVars, interfaces, deletingId, togglingId,
                 isCheckingConnection, routerConfig>>

FetchInterfacesReply(h, r) ==
  /\ h.kind = "fetchInterfaces" /\ h.pc = "await"
  /\ LET f == FetchInterfacesSettle(r, interfaces, connectionValid) IN
     /\ interfaces' = IF Dropped(h) THEN interfaces ELSE f.interfaces
     /\ connectionValid' = f.valid
     /\ ifLoading' = FALSE
     /\ last' = Ranked(h, Event("fetchInterfaces", "none", "none", "response", r, f.toasts,
                                <<>>, <<>>, TRUE, "void", FALSE, FALSE, 0, FALSE))
  /\ inv' = Settled(h, InterfacesSuccess(r))
  /\ UNCHANGED <<modalVars, genVars, page, mounted, config, peerVars, deletingId, togglingId,
                 isCheckingConnection, routerConfig>>

willDisableSame(cur) == cur = "true"

\* const willDisable = currentDisabled === 'false'
willDisable(cur) == cur = "false"

ProceedsUnasked(ok) == TRUE

\* if (!confirm(...)) return: the handler goes on only when the user accepts
Proceeds(ok) == ok

\* if (responseData.success) of the toggle and delete handlers
WriteSuccess(r) == r.success

\* A handler (kind "toggle" or "delete") run on interface id from its call
\* to its await; ok is the user's answer to confirm().  flag is the new
\* value of the handler's busy variable.
StartWrite(kind, id, cur, ok, request) ==
  IF ~Proceeds(ok)
    THEN /\ last' = Event(kind, id, cur, "start", NoResp, <<>>, <<>>, <<>>, TRUE, "void",
                          FALSE, FALSE, 0, ok)
         /\ UNCHANGED <<inv, ifaceVars>>
    ELSE IF ProxyThrows
      THEN \* setXId(id), the throw of makeProxyRequest, catch, finally
           /\ last' = Event(kind, id, cur, "start", NoResp, <<"connError">>, <<>>, <<>>,
                            TRUE, "void", TRUE, FALSE, 0, ok)
           /\ IF kind = "toggle" THEN togglingId' = "null" /\ UNCHANGED deletingId
                                 ELSE deletingId' = "null" /\ UNCHANGED togglingId
           /\ UNCHANGED <<inv, interfaces, ifLoading, connectionValid, isCheckingConnection,
                          routerConfig>>
      ELSE /\ HasFree
           /\ inv' = Suspend(SuspOn(kind, "await", id, cur))
           /\ last' = Event(kind, id, cur, "start", NoResp, <<>>, <<request>>, <<>>,
                            FALSE, "pending", TRUE, FALSE, 0, ok)
           /\ IF kind = "toggle" THEN togglingId' = id /\ UNCHANGED deletingId
                                 ELSE deletingId' = id /\ UNCHANGED togglingId
           /\ UNCHANGED <<interfaces, ifLoading, connectionValid, isCheckingConnection,
                          routerConfig>>

\* onClick={() => handleToggleInterface(iface['.id'], iface.name, iface.disabled)}
\* on the k-th row, disabled={isToggling}
handleToggleInterface(k, ok) ==
  /\ page = "interfaces" /\ mounted /\ ListShown /\ k \in 1..Len(interfaces)
  /\ togglingId # interfaces[k].id
  /\ StartWrite("toggle", interfaces[k].id, interfaces[k].disabled, ok,
                IfacePatch(interfaces[k].id, willDisable(interfaces[k].disabled)))
  /\ UNCHANGED <<modalVars, genVars, page, mounted, config, peerVars>>

\* onClick={() => handleDeleteInterface(iface['.id'], iface.name)},
\* disabled={isDeleting}
handleDeleteInterface(k, ok) ==
  /\ page = "interfaces" /\ mounted /\ ListShown /\ k \in 1..Len(interfaces)
  /\ deletingId # interfaces[k].id
  /\ StartWrite("delete", interfaces[k].id, "none", ok, IfaceDelete(interfaces[k].id))
  /\ UNCHANGED <<modalVars, genVars, page, mounted, config, peerVars>>

\* the reply to the PATCH or DELETE: the handler's try block from the await on
WriteReply(h, r) ==
  /\ h.kind \in {"toggle", "delete"} /\ h.pc = "await"
  /\ LET kind == h.kind
         id == h.arg
         cur == h.cur
         okToast == IF kind = "toggle" THEN "toggled" ELSE "deleted"
         errToast == IF kind = "toggle" THEN "toggleError" ELSE "deleteError"
         reset == IF kind = "toggle" THEN togglingId' = "null" /\ UNCHANGED deletingId
                                     ELSE deletingId' = "null" /\ UNCHANGED togglingId
     IN
     IF Threw(r)
       THEN /\ reset
            /\ inv' = Resume(h)
            /\ last' = Event(kind, id, cur, "response", r, <<"connError">>, <<>>, <<>>,
                             TRUE, "void", TRUE, FALSE, 0, TRUE)
            /\ UNCHANGED <<interfaces, ifLoading, connectionValid>>
       ELSE IF WriteSuccess(r)
         THEN IF ProxyThrows
           THEN \* fetchInterfaces settles at once in its catch
                /\ reset
                /\ connectionValid' = "false"
                /\ ifLoading' = FALSE
                /\ inv' = Resume(h)
                /\ last' = Event(kind, id, cur, "response", r, <<okToast, "connError">>,
                                 <<>>, <<>>, TRUE, "void", TRUE, TRUE, 0, TRUE)
                /\ UNCHANGED interfaces
           ELSE /\ inv' = Move(h, [h EXCEPT !.pc = "refresh"])
                /\ last' = Event(kind, id, cur, "response", r, <<okToast>>, <<IfacesGet>>,
                                 <<>>, FALSE, "pending", TRUE, TRUE, 1, TRUE)
                /\ UNCHANGED <<interfaces, ifLoading, connectionValid, deletingId, togglingId>>
         ELSE /\ reset
              /\ inv' = Resume(h)
              /\ last' = Event(kind, id, cur, "response", r, <<errToast>>, <<>>, <<>>,
                               TRUE, "void", TRUE, FALSE, 0, TRUE)
              /\ UNCHANGED <<interfaces, ifLoading, connectionValid>>
  /\ UNCHANGED <<modalVars, genVars, page, mounted, config, peerVars, isCheckingConnection, routerConfig>>

\* the reply to the GET the handler's fetchInterfaces awaits: fetchInterfaces
\* settles, then the handler's finally runs
WriteRefreshReply(h, r) ==
  /\ h.kind \in {"toggle", "delete"} /\ h.pc = "refresh"
  /\ LET f == FetchInterfacesSettle(r, interfaces, connectionValid) IN
     /\ interfaces' = IF Dropped(h) THEN interfaces ELSE f.interfaces
     /\ connectionValid' = f.valid
     /\ ifLoading' = FALSE
     /\ last' = Ranked(h, Event(h.kind, h.arg, h.cur, "refresh", r, f.toasts, <<>>,
                                <<>>, TRUE, "void", TRUE, TRUE, 1, TRUE))
  /\ IF h.kind = "toggle" THEN togglingId' = "null" /\ UNCHANGED deletingId
                               ELSE deletingId' = "null" /\ UNCHANGED togglingId
  /\ inv' = Settled(h, InterfacesSuccess(r))
  /\ UNCHANGED <<modalVars, genVars, page, mounted, config, peerVars, isCheckingConnection, routerConfig>>

IfacesNext ==
  \/ checkConnection
  \/ \E h \in Pending, r \in Replies(HttpStatuses, ConfigData) : CheckConfigReply(h, r)
  \/ \E h \in Pending, r \in Replies({0}, {Missing}) : CheckTestReply(h, r)
  \/ fetchInterfaces
  \/ \E h \in Pending, r \in Replies({0}, IfaceData) : FetchInterfacesReply(h, r)
  \/ \E k \in 1..MaxLen, ok \in BOOLEAN : handleToggleInterface(k, ok)
  \/ \E k \in 1..MaxLen, ok \in BOOLEAN : handleDeleteInterface(k, ok)
  \/ \E h \in Pending, r \in Replies({0}, {Missing}) : WriteReply(h, r)
  \/ \E h \in Pending, r \in Replies({0}, IfaceData) : WriteRefreshReply(h, r)

\* --------------------------------------------------------- the generators
\* Math.random(): a pseudo-random generator.  In the state x it returns
\* x / 2^RandomBits, a value of [0, 1), and moves to NextRandom(x); the
\* generator below visits every state.
Unit == 2 ^ RandomBits
RandomStates == 0 .. (Unit - 1)
NextRandom(x) == (5 * x + 3) % Unit

\* Doubles, written as multiples of 1 / Unit.  A product is rounded to the
\* nearest double (ties to even): a double keeps RandomBits significant bits.
RECURSIVE Bits(_)
Bits(p) == IF p = 0 THEN 0 ELSE 1 + Bits(p \div 2)
RoundToDouble(p) ==
  LET e == Bits(p) - RandomBits IN
  IF e <= 0 THEN p
  ELSE LET q == 2 ^ e
           lo == (p \div q) * q
           r == p - lo
       IN  IF 2 * r < q THEN lo
           ELSE IF 2 * r > q THEN lo + q
           ELSE IF (p \div q) % 2 = 0 THEN lo ELSE lo + q
\* Math.random() * k in the state x
Times(x, k) == RoundToDouble(x * k)
\* Math.floor
Floor(v) == v \div Unit
Ceil(v) == (v + Unit - 1) \div Unit

chars ==
  << "A", "B", "C", "D", "E", "F", "G", "H", "I", "J", "K", "L", "M",
     "N", "O", "P", "Q", "R", "S", "T", "U", "V", "W", "X", "Y", "Z",
     "a", "b", "c", "d", "e", "f", "g", "h", "i", "j", "k", "l", "m",
     "n", "o", "p", "q", "r", "s", "t", "u", "v", "w", "x", "y", "z",
     "0", "1", "2", "3", "4", "5", "6", "7", "8", "9", "+", "/" >>
\* s.charAt(i): the character, or the empty string when i is no index of s
charAt(s, i) == IF i \in 0 .. (Len(s) - 1) THEN <<s[i + 1]>> ELSE <<>>

CharIndexCeil(x) == Ceil(Times(x, Len(chars)))
\* Math.floor(Math.random() * chars.length)
CharIndex(x) == Floor(Times(x, Len(chars)))

\* generatePublicKey from the state x of Math.random(): the string (as its
\* characters) and the state Math.random() is left in
RECURSIVE KeyLoop(_, _, _)
KeyLoop(i, result, x) ==
  IF i < 44
    THEN KeyLoop(i + 1, result \o charAt(chars, CharIndex(x)), NextRandom(x))
    ELSE [result |-> result, rnd |-> x]
generatePublicKey(x) == KeyLoop(0, <<>>, x)

HostIdWide(x) == Floor(Times(x, 255)) + 1
\* Math.floor(Math.random() * 254) + 1
HostId(x) == Floor(Times(x, 254)) + 1
generateAllowedAddress(x) ==
  LET baseNetwork == "10.0.0"
      hostId == HostId(x)
  IN  baseNetwork \o "." \o ToString(hostId) \o "/32"

BodyFields == {"public-key", "allowed-address"}
NoBody == [f \in BodyFields |-> IF f = "public-key" THEN <<>> ELSE ""]

\* 'public-key': generatePublicKey(), 'allowed-address':
\* generateAllowedAddress() of createPeer's requestBody
GenerateBody ==
  /\ LET key == generatePublicKey(rnd) IN
       /\ body' = [f \in BodyFields |->
                     IF f = "public-key" THEN key.result
                     ELSE generateAllowedAddress(key.rnd)]
       /\ rnd' = NextRandom(key.rnd)
  /\ UNCHANGED <<pageVars, modalVars>>

\* ------------------------------------------------------------ QRCodeModal
\* a JavaScript value read from the peer object: undefined, a string, a number
Undefined == [t |-> "undefined", s |-> "", n |-> 0]
Str(x) == [t |-> "string", s |-> x, n |-> 0]
Num(x) == [t |-> "number", s |-> "", n |-> x]

\* the peer objects rendered: each field absent, empty or set (the port as
\* a number, 0 included, or as text)
PeerFields == {"public-key", "allowed-address", "endpoint-address", "endpoint-port"}
PeerObjects ==
  {o \in [PeerFields -> {Undefined, Str(""), Str("PKEY"), Str("10.0.0.5/32"),
                         Str("vpn.example.com"), Str("13231"), Num(0), Num(13231)}] :
     /\ o["public-key"] \in {Undefined, Str(""), Str("PKEY")}
     /\ o["allowed-address"] \in {Undefined, Str(""), Str("10.0.0.5/32")}
     /\ o["endpoint-address"] \in {Undefined, Str(""), Str("vpn.example.com")}
     /\ o["endpoint-port"] \in {Undefined, Str(""), Str("13231"), Num(0), Num(13231)}}
ExamplePeer ==
  [f \in PeerFields |->
     CASE f = "public-key" -> Str("PKEY")
       [] f = "allowed-address" -> Str("10.0.0.5/32")
       [] f = "endpoint-address" -> Str("vpn.example.com")
       [] OTHER -> Undefined]

OrNullish(a, b) == IF a.t = "undefined" THEN b ELSE a
\* a || b
Falsy(a) == a.t = "undefined" \/ (a.t = "string" /\ a.s = "") \/ (a.t = "number" /\ a.n = 0)
Or(a, b) == IF Falsy(a) THEN b ELSE a
\* ${a} in a template literal
Text(a) == CASE a.t = "string" -> a.s
             [] a.t = "number" -> ToString(a.n)
             [] OTHER -> "undefined"

\* the text as its lines; useState('') is the text without a line
NoText == <<>>
generateWireGuardConfig(peerData) ==
  LET clientPrivateKey == Str("ABCD1234567890ABCD1234567890ABCD1234567890=")
      serverPublicKey == Or(peerData["public-key"], Str("EFGH1234567890EFGH1234567890EFGH1234567890="))
  IN  << "[Interface]",
         "PrivateKey = " \o Text(clientPrivateKey),
         "Address = " \o Text(Or(peerData["allowed-address"], Str("10.0.0.10/32"))),
         "DNS = 1.1.1.1",
         "",
         "[Peer]",
         "PublicKey = " \o Text(serverPublicKey),
         "Endpoint = " \o Text(Or(peerData["endpoint-address"], Str("vpn.stacasa.local")))
                      \o ":" \o Text(Or(peerData["endpoint-port"], Num(51820))),
         "AllowedIPs = 0.0.0.0/0",
         "PersistentKeepalive = 25" >>

\* useEffect: if (isOpen && peer) setConfigContent(generateWireGuardConfig(peer))
OpenQRCode ==
  /\ configContent' = generateWireGuardConfig(peer)
  /\ UNCHANGED <<pageVars, genVars, peer>>

Init ==
  /\ page \in {"peers", "interfaces"}
  /\ mounted = FALSE
  /\ config \in Configs
  /\ peers = <<>> /\ isLoading = FALSE /\ isCreating = FALSE
  /\ interfaces = <<>> /\ ifLoading = TRUE
  /\ deletingId = "null" /\ togglingId = "null"
  /\ connectionValid = "null" /\ isCheckingConnection = TRUE
  /\ routerConfig = "null"
  /\ inv = EmptyBag
  /\ last = NoEvent
  /\ peer = ExamplePeer /\ configContent = NoText
  /\ rnd = 0 /\ body = NoBody

Next == PeersNext \/ IfacesNext

Spec == Init /\ [][Next]_vars

\* the modal and the generators on their own: every peer object of
\* PeerObjects is rendered
RenderInit ==
  /\ page = "peers" /\ mounted = FALSE /\ config = "mikrotik"
  /\ peers = <<>> /\ isLoading = FALSE /\ isCreating = FALSE
  /\ interfaces = <<>> /\ ifLoading = TRUE
  /\ deletingId = "null" /\ togglingId = "null"
  /\ connectionValid = "null" /\ isCheckingConnection = TRUE
  /\ routerConfig = "null"
  /\ inv = EmptyBag
  /\ last = NoEvent
  /\ peer \in PeerObjects /\ configContent = NoText
  /\ rnd = 0 /\ body = NoBody

RenderNext == OpenQRCode

RenderSpec == RenderInit /\ [][RenderNext]_vars

\* the generators on their own, from every state of Math.random()
GenInit ==
  /\ page = "peers" /\ mounted = FALSE /\ config = "mikrotik"
  /\ peers = <<>> /\ isLoading = FALSE /\ isCreating = FALSE
  /\ interfaces = <<>> /\ ifLoading = TRUE
  /\ deletingId = "null" /\ togglingId = "null"
  /\ connectionValid = "null" /\ isCheckingConnection = TRUE
  /\ routerConfig = "null"
  /\ inv = EmptyBag
  /\ last = NoEvent
  /\ peer = ExamplePeer /\ configContent = NoText
  /\ rnd \in RandomStates /\ body = NoBody

GenNext == GenerateBody

GenSpec == GenInit /\ [][GenNext]_vars
\* ------------------------------------------------------------ properties
Writes == {"createPeer", "toggle", "delete"}
SuccessToasts == {"created", "toggled", "deleted"}
ReportsSuccess(e) == \E i \in 1..Len(e.toasts) : e.toasts[i] \in SuccessToasts
ErrorCount(e) == Cardinality({i \in 1..Len(e.toasts) : e.toasts[i] \in ErrorToasts})
ListGet(k) == IF k = "createPeer" THEN PeersGet ELSE IfacesGet
Json(e) == e.resp.outcome = "json"
\* a fetchPeers / fetchInterfaces consumed its reply in the step e
PeersFetchSettled(e) ==
  \/ e.kind = "fetchPeers" /\ e.step = "response"
  \/ e.kind = "createPeer" /\ e.step = "refresh"
IfacesFetchSettled(e) ==
  \/ e.kind = "fetchInterfaces" /\ e.step = "response"
  \/ e.kind \in {"toggle", "delete"} /\ e.step = "refresh"
CurrentList == IF page = "peers" THEN peers ELSE interfaces

\* C1: a create, toggle or delete that reports success sends exactly one GET
\* of its list, in the step that reports the success, and resolves only in
\* the step that consumes the reply to that GET; one that reports no success
\* sends no GET and resolves without a re-fetch.
C1_RefetchOnceBeforeResolve ==
  last.kind \in Writes =>
    /\ last.step = "start" => \A i \in 1..Len(last.reqs) : last.reqs[i].method # "GET"
    /\ (last.step = "response" /\ ReportsSuccess(last)) =>
         (last.reqs = <<ListGet(last.kind)>> /\ ~last.done)
    /\ (last.step = "response" /\ ~ReportsSuccess(last)) =>
         (last.reqs = <<>> /\ last.done /\ last.refetches = 0)
    /\ last.step = "refresh" =>
         (last.reqs = <<>> /\ last.done /\ last.refetches = 1 /\ last.resp # NoResp)
    /\ last.done => (last.okShown <=> last.step = "refresh")

C1_Witness ==
  /\ last.kind = "createPeer" /\ last.step = "refresh" /\ last.done
  /\ last.result = "true" /\ last.refetches = 1

\* C2: when a handler that set its busy flag resolves, the flag is reset,
\* whatever reply (or rejection) it got; when a fetchInterfaces settles,
\* isLoading of the page is false.
C2_FlagsResetOnCompletion ==
  /\ (last.kind = "fetchPeers" /\ last.done /\ last.setFlag) => ~isLoading
  /\ PeersFetchSettled(last) => ~isLoading
  /\ (last.kind = "createPeer" /\ last.done /\ last.setFlag) => ~isCreating
  /\ (last.kind = "toggle" /\ last.done /\ last.setFlag) => togglingId = "null"
  /\ (last.kind = "delete" /\ last.done /\ last.setFlag) => deletingId = "null"
  /\ IfacesFetchSettled(last) => ~ifLoading

C2_Witness ==
  /\ last.kind = "fetchPeers" /\ last.done /\ last.setFlag
  /\ last.resp.outcome = "timeout" /\ ~isLoading

\* C3: with no profile stored, a call of fetchPeers or createPeer sends no
\* request, shows the "not configured" notification, leaves peers, isLoading
\* and isCreating as they were, and resolves at once (createPeer with false).
C3_NoConfigNoRequest ==
  [][(config = "none" /\ last'.kind \in {"fetchPeers", "createPeer"} /\ last'.step = "start") =>
       /\ last'.reqs = <<>>
       /\ last'.toasts = <<"notConfigured">>
       /\ UNCHANGED <<peers, isLoading, isCreating, inv>>
       /\ last'.done
       /\ last'.result = IF last'.kind = "createPeer" THEN "false" ELSE "void"]_vars

C3_Witness ==
  /\ config = "none" /\ last.kind = "createPeer" /\ last.step = "start"
  /\ last.result = "false" /\ last.toasts = <<"notConfigured">> /\ last.reqs = <<>>

\* C4 as stated: after a list fetch whose reply has success = true and an
\* array in data, the list equals that array.
C4_Original ==
  ((PeersFetchSettled(last) \/ IfacesFetchSettled(last)) /\ Json(last)
     /\ last.resp.success /\ last.resp.data.tag = "array")
  => CurrentList = last.resp.data.val

\* C4 amended: the same, where for fetchInterfaces the reply also has
\* status = 200.
C4_VerbatimOnSuccess ==
  ((PeersFetchSettled(last) \/ IfacesFetchSettled(last)) /\ Json(last)
     /\ last.resp.success /\ last.resp.data.tag = "array"
     /\ (IfacesFetchSettled(last) => last.resp.status = 200))
  => CurrentList = last.resp.data.val

C4_Witness ==
  /\ IfacesFetchSettled(last) /\ Json(last) /\ last.resp.success /\ last.resp.status = 200
  /\ last.resp.data.tag = "array" /\ Len(last.resp.data.val) = 2
  /\ interfaces = last.resp.data.val

\* C5 as stated, for the replies the fetch accepts (success = true, and
\* status = 200 for fetchInterfaces): when data is absent or no array, the
\* list is empty after the fetch.
C5_EmptyOnNonArray ==
  ((PeersFetchSettled(last) \/ IfacesFetchSettled(last)) /\ Json(last)
     /\ last.resp.success /\ last.resp.data.tag # "array"
     /\ (IfacesFetchSettled(last) => last.resp.status = 200))
  => CurrentList = <<>>

\* C6: fetchPeers takes {success: true, data: []} as success whatever the
\* HTTP status and the status field (peers empty, no error notification);
\* fetchInterfaces takes a reply without status = 200 as failure (list kept,
\* error notification) and shows no error only when status = 200.
C6_StatusAsymmetry ==
  [][/\ (PeersFetchSettled(last') /\ Json(last') /\ last'.resp.success
           /\ last'.resp.data = Arr(<<>>))
        => (peers' = <<>> /\ ErrorCount(last') = 0)
     /\ (PeersFetchSettled(last') /\ Json(last') /\ last'.resp.success
           /\ last'.resp.data.tag \in {"array", "object"})
        => ErrorCount(last') = 0
     /\ (IfacesFetchSettled(last') /\ Json(last') /\ last'.resp.status # 200)
        => (interfaces' = interfaces /\ last'.toasts = <<"fetchError">>)
     /\ (IfacesFetchSettled(last') /\ ErrorCount(last') = 0)
        => (Json(last') /\ last'.resp.success /\ last'.resp.status = 200)]_vars

C6_Witness ==
  /\ PeersFetchSettled(last) /\ Json(last) /\ last.resp.http = 500
  /\ last.resp.success /\ last.resp.status = 0 /\ last.resp.data = Arr(<<>>)
  /\ peers = <<>> /\ last.toasts = <<>>

\* C7 as stated: every step that consumes the reply to a router-proxy
\* request (peers GET and PUT, interfaces GET, PATCH and DELETE) writes
\* exactly one log record.
C7_OneLogPerRequest ==
  (last.kind \in {"fetchPeers", "createPeer", "fetchInterfaces", "toggle", "delete"}
     /\ last.step \in {"response", "refresh"})
  => Len(last.logs) = 1

\* C8 as stated: no handler's promise rejects.
C8_NeverThrows == last.result # "threw"

C10_ConfirmGate ==
  [][/\ (last'.kind \in {"toggle", "delete"} /\ last'.step = "start" /\ ~last'.confirmed)
        => (last'.reqs = <<>> /\ last'.toasts = <<>> /\ last'.done
            /\ UNCHANGED <<ifaceVars, inv>>)
     /\ (\E i \in 1..Len(last'.reqs) : last'.reqs[i].method \in {"PATCH", "DELETE"})
        => last'.confirmed]_vars

C10_Witness ==
  /\ last.kind = "delete" /\ last.step = "start" /\ ~last.confirmed /\ last.done
  /\ last.reqs = <<>> /\ deletingId = "null" /\ Len(interfaces) > 0

\* the text of the boolean a PATCH body carries
FlagText(b) == IF b THEN "true" ELSE "false"
\* the disabled flag the list q reports for the interface id
FlagOf(q, id) == {q[i].disabled : i \in {j \in 1..Len(q) : q[j].id = id}}

\* C11: the PATCH a confirmed toggle sends carries disabled = true when the
\* flag it was given is "false" and disabled = false when it is "true", the
\* flag being the one the list shows for that interface; and when the
\* re-fetch of a successful toggle reports the flag that toggle sent, a
\* toggle of the same interface in the next step sends the flag the first
\* one was given.
C11_ToggleSendsInverse ==
  [][/\ (last'.kind = "toggle" /\ last'.step = "start" /\ last'.reqs # <<>>)
        => /\ last'.cur \in FlagOf(interfaces, last'.arg)
           /\ last'.reqs = <<Req("PATCH", last'.arg, FlagText(last'.cur = "false"))>>
           /\ last'.reqs[1].body # last'.cur
     /\ (/\ last.kind = "toggle" /\ last.step = "refresh"
         /\ FlagOf(interfaces, last.arg) = {FlagText(last.cur = "false")}
         /\ last'.kind = "toggle" /\ last'.step = "start" /\ last'.arg = last.arg
         /\ last'.reqs # <<>>)
        => last'.reqs[1].body = last.cur]_vars

C11_Witness ==
  /\ last.kind = "toggle" /\ last.step = "start" /\ last.confirmed
  /\ last.cur = "true" /\ last.reqs = <<Req("PATCH", last.arg, "false")>>
  /\ togglingId = last.arg

\* C12: with a profile of another router type stored, a call of fetchPeers
\* sends no request, shows no notification, writes no log record, leaves
\* peers, isLoading and isCreating as they were and resolves at once; so no
\* peers request is ever in flight and the list stays empty.
C12_OtherTypeSilentNoOp ==
  [][config = "other" =>
       /\ (last'.kind = "fetchPeers" /\ last'.step = "start") =>
            /\ last'.reqs = <<>> /\ last'.toasts = <<>> /\ last'.logs = <<>>
            /\ UNCHANGED <<peers, isLoading, isCreating, inv>>
            /\ last'.done /\ last'.result = "void"
       /\ last'.kind = "fetchPeers" => last'.step = "start"
       /\ \A h \in BagToSet(inv') : h.kind \notin {"fetchPeers", "createPeer"}
       /\ peers' = <<>> /\ ~isLoading']_vars

C12_Witness ==
  /\ config = "other" /\ page = "peers" /\ mounted
  /\ last.kind = "fetchPeers" /\ last.step = "start" /\ last.done
  /\ last.toasts = <<>> /\ last.reqs = <<>> /\ last.logs = <<>>
  /\ peers = <<>> /\ ~isLoading

\* the reply e consumed is no success of a list fetch
FetchFailed(e) ==
  \/ ~Json(e)
  \/ ~e.resp.success
  \/ e.kind = "createPeer" /\ ~Truthy(e.resp.data)
  \/ e.kind # "createPeer" /\ e.resp.status # 200

\* C13: a write that succeeds shows its success notification and sends the
\* list GET as a request of its own, in the step that consumes the write's
\* reply; when the re-fetch then fails (failure envelope, timeout, transport
\* error, unparsable body) the handler still resolves as after a success
\* (createPeer with true), having shown the success notification, and the
\* step shows the error notification of the fetch only.
C13_WriteOutcomeStands ==
  /\ (last.kind \in Writes /\ last.step = "response" /\ ~last.done) =>
       /\ Json(last) /\ last.resp.success
       /\ ReportsSuccess(last) /\ last.okShown
       /\ last.reqs = <<ListGet(last.kind)>>
  /\ (last.kind \in Writes /\ last.step = "refresh") =>
       /\ last.done /\ last.okShown /\ last.reqs = <<>>
       /\ last.result = IF last.kind = "createPeer" THEN "true" ELSE "void"
       /\ ~ReportsSuccess(last)
       /\ FetchFailed(last) => (Len(last.toasts) = 1 /\ ErrorCount(last) = 1)

C13_Witness ==
  /\ last.kind = "createPeer" /\ last.step = "refresh" /\ last.resp.outcome = "timeout"
  /\ last.done /\ last.result = "true" /\ last.okShown /\ last.toasts = <<"connError">>
  /\ ~isCreating

\* C14: a step changes peers only when a fetchPeers consumed a reply it takes
\* as success, and then peers is the array of that reply (empty when data is
\* no array); likewise interfaces and fetchInterfaces.  In particular the
\* steps of a create, toggle or delete that send the write and consume its
\* reply leave both lists as they are.
C14_ListsWrittenByFetchOnly ==
  [][/\ peers' # peers =>
          /\ PeersFetchSettled(last') /\ Json(last') /\ last'.resp.success
          /\ peers' = ListFromData(last'.resp.data)
     /\ interfaces' # interfaces =>
          /\ IfacesFetchSettled(last') /\ Json(last') /\ last'.resp.success
          /\ last'.resp.status = 200
          /\ interfaces' = ListFromData(last'.resp.data)
     /\ (last'.kind \in Writes /\ last'.step \in {"start", "response"})
          => UNCHANGED <<peers, interfaces>>]_vars

C14_Witness ==
  /\ last.kind = "toggle" /\ last.step = "response" /\ last.okShown
  /\ Json(last) /\ last.resp.success
  /\ FlagOf(interfaces, last.arg) = {last.cur}

\* C15: list fetches overlap freely: a step in which one consumes its reply
\* leaves every other suspended handler suspended, and when the reply is a
\* success the list is its array, also when the GET was sent before another
\* GET whose reply has been stored already (the older reply replaces the
\* newer one).
C15_LastResolvedWins ==
  [][(PeersFetchSettled(last') \/ IfacesFetchSettled(last')) =>
       /\ BagCardinality(inv') = BagCardinality(inv) - 1
       /\ (/\ Json(last') /\ last'.resp.success
           /\ IF page = "peers" THEN Truthy(last'.resp.data) ELSE last'.resp.status = 200)
          => /\ CurrentList' = ListFromData(last'.resp.data)
             /\ last'.stale => CurrentList' = ListFromData(last'.resp.data)]_vars

C15_Witness ==
  /\ IfacesFetchSettled(last) /\ last.stale
  /\ Json(last) /\ last.resp.success /\ last.resp.status = 200
  /\ last.resp.data.tag = "array" /\ Len(last.resp.data.val) = 2
  /\ interfaces = last.resp.data.val

\* the lines of the text that are not blank
Fields == SelectSeq(configContent, LAMBDA l : l # "")
\* the field f of the peer is given: a non-empty text or a number other than 0
Given(f) == peer[f] \notin {Undefined, Str(""), Num(0)}
ValueOr(f, default) ==
  IF ~Given(f) THEN default
  ELSE IF peer[f].t = "number" THEN ToString(peer[f].n) ELSE peer[f].s

\* C16: the rendered text has, in this order, [Interface], PrivateKey,
\* Address, DNS, [Peer], PublicKey, Endpoint, AllowedIPs, PersistentKeepalive;
\* Address and PublicKey are the peer's allowed-address and public-key or
\* their defaults, Endpoint is address:port with port 51820 when none is
\* given, AllowedIPs is 0.0.0.0/0 and PersistentKeepalive 25; the example
\* peer renders Address = 10.0.0.5/32, PublicKey = PKEY and
\* Endpoint = vpn.example.com:51820.
C16_ConfigFieldOrder ==
  configContent # NoText =>
    /\ Len(Fields) = 9
    /\ Fields[1] = "[Interface]"
    /\ Fields[2] = "PrivateKey = ABCD1234567890ABCD1234567890ABCD1234567890="
    /\ Fields[3] = "Address = " \o ValueOr("allowed-address", "10.0.0.10/32")
    /\ Fields[4] = "DNS = 1.1.1.1"
    /\ Fields[5] = "[Peer]"
    /\ Fields[6] = "PublicKey = "
                     \o ValueOr("public-key", "EFGH1234567890EFGH1234567890EFGH1234567890=")
    /\ Fields[7] = "Endpoint = " \o ValueOr("endpoint-address", "vpn.stacasa.local")
                     \o ":" \o ValueOr("endpoint-port", "51820")
    /\ Fields[8] = "AllowedIPs = 0.0.0.0/0"
    /\ Fields[9] = "PersistentKeepalive = 25"
    /\ peer = ExamplePeer =>
         /\ Fields[3] = "Address = 10.0.0.5/32"
         /\ Fields[6] = "PublicKey = PKEY"
         /\ Fields[7] = "Endpoint = vpn.example.com:51820"

C16_Witness ==
  /\ peer = ExamplePeer /\ Len(configContent) = 10
  /\ configContent[3] = "Address = 10.0.0.5/32"
  /\ configContent[8] = "Endpoint = vpn.example.com:51820"

Alphabet ==
  {"A", "B", "C", "D", "E", "F", "G", "H", "I", "J", "K", "L", "M", "N", "O", "P", "Q",
   "R", "S", "T", "U", "V", "W", "X", "Y", "Z"}
  \cup {"a", "b", "c", "d", "e", "f", "g", "h", "i", "j", "k", "l", "m", "n", "o", "p",
        "q", "r", "s", "t", "u", "v", "w", "x", "y", "z"}
  \cup {"0", "1", "2", "3", "4", "5", "6", "7", "8", "9"} \cup {"+", "/"}

\* C17: the key generated has exactly 44 characters, each one of the 64 of
\* A-Z, a-z, 0-9, + and /; the index computed from any value of
\* Math.random() is within 0..63.
C17_KeyLengthAndAlphabet ==
  /\ Cardinality(Alphabet) = 64
  /\ \A x \in RandomStates : CharIndex(x) \in 0..63
  /\ body # NoBody =>
       /\ Len(body["public-key"]) = 44
       /\ \A i \in 1..Len(body["public-key"]) : body["public-key"][i] \in Alphabet

C17_Witness ==
  /\ body # NoBody /\ Len(body["public-key"]) = 44
  /\ \E i \in 1..44 : body["public-key"][i] = "/"
  /\ \E i \in 1..44 : body["public-key"][i] = "A"

\* C18: the address generated is 10.0.0.n/32 with n in 1..254, for every
\* value of Math.random().
C18_AddressRange ==
  /\ \A x \in RandomStates : HostId(x) \in 1..254
  /\ body # NoBody =>
       \E n \in 1..254 : body["allowed-address"] = "10.0.0." \o ToString(n) \o "/32"

C18_Witness ==
  /\ body # NoBody /\ body["allowed-address"] = "10.0.0.254/32"

\* C19 as stated: isLoading is true while a GET of the peers list is awaited
\* (by fetchPeers, or by the fetchPeers createPeer awaits), and isCreating is
\* true while a createPeer is suspended.
C19_FlagsCoverInFlight ==
  /\ (\E h \in Pending : AwaitsList(h) /\ h.kind \in {"fetchPeers", "createPeer"}) => isLoading
  /\ (\E h \in Pending : h.kind = "createPeer") => isCreating

SendsListGet(e) == \E i \in 1..Len(e.reqs) : e.reqs[i] = IfacesGet

====
